---- MODULE Spec2Model ----
(***************************************************************************)
(* A model of the alumina computation-graph sources: the Mul op's forward  *)
(* and backward passes over Storage (ops/math/mul.rs), the numeric         *)
(* gradient check (ops/numeric_check.rs), the Broadcast operation          *)
(* (ops/broadcast.rs), and the parts of the engine they lean on (shape     *)
(* merge, execute, the pass scheduler), which are modelled from the        *)
(* specification where their code is not part of the sources.              *)
(*                                                                         *)
(* f32 values are modelled as integers: sums and products are exact.       *)
(* Tensors are a shape (a sequence of extents) and a row-major buffer      *)
(* indexed from 0.                                                         *)
(***************************************************************************)
EXTENDS Integers, Sequences, FiniteSets, TLC

VARIABLES
  \* --- one run of a Mul pass against Storage (ops/math/mul.rs)
  store,      \* Storage: DataID -> tensor
  store0,     \* Storage as it was when the run started
  required,   \* the DataIDs Storage reports as is_required
  pass,       \* the pass the engine runs: "none", "MulForward", "MulBackward"
  pc,         \* the run's position
  parts,      \* the parts of the Zip in progress, one per worker task
  accessed,   \* the DataIDs the run obtained with get_mut
  result      \* what run returned: <<"none">>, <<"Ok">>, <<"PassError", name>>

passVars == <<store, store0, required, pass, pc, parts, accessed, result>>

VARIABLES
  \* --- numeric_test (ops/numeric_check.rs)
  iters, failures, tolerance,   \* its arguments
  iter,                         \* trials made so far
  param_count, input_count,     \* its two counters
  param_errs, input_errs,       \* the errors of the trials, in order
  outcome                       \* "running", "Ok", "Err", "PanicParam", "PanicInput"

testVars == <<iters, failures, tolerance, iter, param_count, input_count,
              param_errs, input_errs, outcome>>

VARIABLES
  \* --- shape merge (NodeShape::merge)
  shapeA, shapeB, shapeC,   \* three NodeShapes
  mpc,                      \* "start", then "done" once they are merged
  mergedLeft,               \* merge(merge(a, b), c)
  mergedRight,              \* merge(a, merge(b, c))
  mergedSelf                \* merge(a, a)

mergeVars == <<shapeA, shapeB, shapeC, mpc, mergedLeft, mergedRight, mergedSelf>>

VARIABLES
  \* --- the Broadcast operation (ops/broadcast.rs)
  bcInput,    \* input_id.shape: the input node's shape as its NodeID holds it
  bcOutput,   \* output_id.shape
  bcOp,       \* the Broadcast built by new: [output_channels], or <<>>
  bcShapes,   \* shapes[input_id.ind]: the input node's shape in the engine
  bcpc,       \* "nodes", "built", "propagated", "ran", "panicked"
  bcPanic,    \* the assertion or expect that failed, "" if none
  bcIn,       \* the input node's values
  bcOut       \* the output node's values

bcVars == <<bcInput, bcOutput, bcOp, bcShapes, bcpc, bcPanic, bcIn, bcOut>>

VARIABLES
  \* --- numeric_error and the execute calls it makes on its subgraph
  nodeShape,  \* the shapes of the graph's nodes
  fillSeed,   \* the seed of the fill functions the samples are drawn with
  tags,       \* the nodes tagged Parameter
  nepc,       \* numeric_error's position
  data0,      \* inputs_0 and params_0: leaf node -> tensor
  output0,    \* output_0: the baseline call's results
  losses,     \* loss_1 and loss_2 of the trial in progress
  errs,       \* [param, input]: the relative errors computed so far
  exData,     \* the data of the execute call in progress, leaf node -> tensor
  sched,      \* the passes of the call in progress: "pending", "running", "done"
  loss,       \* the loss the call in progress has accumulated
  calls,      \* every execute call made: its data and what it returned
  trial       \* numeric_error calls returned

execVars == <<nodeShape, fillSeed, tags, nepc, data0, output0, losses, errs, exData, sched,
              loss, calls, trial>>


VARIABLES
  \* --- shape propagation of the Mul op (MulInstance)
  gShapes,     \* GraphShapes: the shapes of input1, input2 and output
  gShapes0,    \* GraphShapes as they were when the rule was called
  ppc,         \* "start", then "returned" or "panicked"
  propResult   \* <<"none">>, <<"Ok">> or <<"Err">>

propVars == <<gShapes, gShapes0, ppc, propResult>>

vars == <<passVars, testVars, mergeVars, bcVars, execVars, propVars>>

\* Each specification runs one part of the program; the state of the other
\* parts stays as constructed.
PassIdle ==
  /\ store = <<>> /\ store0 = <<>> /\ required = {} /\ pass = "none"
  /\ pc = "off" /\ parts = <<>> /\ accessed = {} /\ result = <<"none">>

TestIdle ==
  /\ iters = 0 /\ failures = 0 /\ tolerance = 0 /\ iter = 0
  /\ param_count = 0 /\ input_count = 0
  /\ param_errs = <<>> /\ input_errs = <<>> /\ outcome = "off"

MergeIdle ==
  /\ shapeA = <<>> /\ shapeB = <<>> /\ shapeC = <<>> /\ mpc = "off"
  /\ mergedLeft = <<"none">> /\ mergedRight = <<"none">> /\ mergedSelf = <<"none">>

BroadcastIdle ==
  /\ bcInput = <<>> /\ bcOutput = <<>> /\ bcOp = <<>> /\ bcShapes = <<>>
  /\ bcpc = "off" /\ bcPanic = "" /\ bcIn = <<>> /\ bcOut = <<>>

ExecIdle ==
  /\ nodeShape = <<>> /\ fillSeed = 0 /\ tags = {} /\ nepc = "off" /\ data0 = <<>>
  /\ output0 = <<>> /\ losses = <<>> /\ errs = <<>> /\ exData = <<>>
  /\ sched = <<>> /\ loss = 0 /\ calls = <<>> /\ trial = 0

PropagateIdle ==
  /\ gShapes = <<>> /\ gShapes0 = <<>> /\ ppc = "off" /\ propResult = <<"none">>

PassOnly == UNCHANGED <<testVars, mergeVars, bcVars, execVars, propVars>>
TestOnly == UNCHANGED <<passVars, mergeVars, bcVars, execVars, propVars>>
MergeOnly == UNCHANGED <<passVars, testVars, bcVars, execVars, propVars>>
BroadcastOnly == UNCHANGED <<passVars, testVars, mergeVars, execVars, propVars>>
ExecOnly == UNCHANGED <<testVars, mergeVars, bcVars, propVars>>
PropagateOnly == UNCHANGED <<passVars, testVars, mergeVars, bcVars, execVars>>

\* ------------------------------------------------------------------ bounds
\* Largest extent of one tensor dimension.
MaxDim == 2
\* Largest rank of a tensor.
MaxRank == 2
\* Largest number of elements of a tensor.
MaxElems == 4
\* The sample data of a run is drawn with a seed in 0..MaxSeed.
MaxSeed == 1
\* Number of parts a data-parallel Zip is split into (worker tasks).
NParts == 2
\* Largest extent a NodeDim names (Known(1..MaxExt), ranges within 1..MaxExt).
MaxExt == 2
\* numeric_error is called MaxTrials times on one graph.
MaxTrials == 2
\* step_size, in the model's integer units.
StepSize == 2
\* numeric_test: at most MaxIters trials, a budget of at most MaxFailures,
\* finite relative errors and tolerances in 0..MaxErr.
MaxIters == 2
MaxFailures == 1
MaxErr == 1

\* The f32 NaN, a value apart from every number the model computes.
NaN == -1000000

\* f32 arithmetic: exact on the integers, NaN absorbing.
FAdd(x, y) == IF x = NaN \/ y = NaN THEN NaN ELSE x + y
FMul(x, y) == IF x = NaN \/ y = NaN THEN NaN ELSE x * y

\* ------------------------------------------------------------ tensor maths
RECURSIVE Product(_)
Product(s) == IF s = <<>> THEN 1 ELSE Head(s) * Product(Tail(s))

RECURSIVE SumOver(_, _)
\* The sum of f[x] over the finite set S.
SumOver(f, S) ==
  IF S = {} THEN 0
  ELSE LET x == CHOOSE y \in S : TRUE IN f[x] + SumOver(f, S \ {x})

FlatSize(s) == Product(s)

Indices(s) == 0 .. (FlatSize(s) - 1)

\* The extent-sequences of rank 1..MaxRank, extents 1..MaxDim, at most MaxElems
\* elements.
Shapes ==
  { s \in UNION { [1..r -> 1..MaxDim] : r \in 1..MaxRank } : FlatSize(s) <= MaxElems }

\* Row-major stride of axis k of shape s.
Stride(s, k) == Product(SubSeq(s, k + 1, Len(s)))

\* The index along axis k of the element at flat position i of shape s.
AxisIndex(i, s, k) == (i \div Stride(s, k)) % s[k]

\* ndarray's ArrayBase::broadcast: `from` is aligned with the trailing axes of
\* `to`; each of its axes must have the same extent or extent 1.
BroadcastOk(from, to) ==
  /\ Len(from) <= Len(to)
  /\ \A k \in 1..Len(from) :
       LET t == to[k + Len(to) - Len(from)] IN from[k] = t \/ from[k] = 1

\* The flat position in a buffer of shape `from` read at flat position i of
\* the shape `to` it is broadcast to: a broadcast axis has stride 0.
BroadcastIndex(i, from, to) ==
  LET off == Len(to) - Len(from)
      ix(k) == IF from[k] = 1 \/ k + off < 1 THEN 0
               ELSE AxisIndex(i, to, k + off) % from[k]
      term == [k \in 1..Len(from) |-> ix(k) * Stride(from, k)]
  IN SumOver(term, 1..Len(from))

\* The positions of shape `to` that read element j of a buffer of shape `from`.
BroadcastPositions(j, from, to) ==
  { i \in Indices(to) : BroadcastIndex(i, from, to) = j }

\* ------------------------------------------------------------------- ids
Nodes == {"input1", "input2", "output"}

\* NodeID::value_id / NodeID::gradient_id: two distinct DataIDs per node.
ValueID(n) == <<n, "value">>
GradientID(n) == <<n, "gradient">>

DataIDs == { ValueID(n) : n \in Nodes } \cup { GradientID(n) : n \in Nodes }

\* The sample value of element i of buffer `salt` under seed `seed`.
Sample(seed, salt, i) == ((seed + salt + 2 * i + (i \div 2)) % 3) - 1 + (salt % 2)

Tensor(shape, seed, salt) ==
  [shape |-> shape, data |-> [i \in Indices(shape) |-> Sample(seed, salt, i)]]

Zeros(shape) == [shape |-> shape, data |-> [i \in Indices(shape) |-> 0]]

\* --------------------------------------------------- Mul passes: the Zips
\* Zip::apply runs on the calling thread alone: one part, the whole index
\* space. Zip::par_apply splits the index space into contiguous parts that
\* worker threads run concurrently.
SplitParts(n, k) ==
  [p \in 1..k |->
     [lo |-> ((p - 1) * n) \div k, hi |-> ((p * n) \div k) - 1,
      phase |-> "load", reg |-> 0]]

Apply(n) == SplitParts(n, 1)
ParApply(n) == SplitParts(n, NParts)

\* mul.rs:154-159, the Zip of MulForward::run
ForwardZip(n) == ParApply(n)
\* mul.rs:214-219, the Zip into input1's gradient
Input1GradZip(n) == ParApply(n)
\* Mutant of Input2GradZip: the Zip is split like the other two.
Input2GradZipParallel(n) == ParApply(n)

\* mul.rs:227-234, the Zip into input2's gradient ("do not split/parallelise")
Input2GradZip(n) == Apply(n)

\* The buffer a Zip accumulates into, at each position of the run.
ZipTarget ==
  CASE pc = "fwd_zip" -> ValueID("output")
    [] pc = "bwd_zip1" -> GradientID("input1")
    [] pc = "bwd_zip2" -> GradientID("input2")

\* The shape a Zip iterates over: that of its first operand.
ZipShape ==
  CASE pc = "fwd_zip" -> store[ValueID("output")].shape
    [] pc = "bwd_zip1" -> store[GradientID("input1")].shape
    [] pc = "bwd_zip2" -> store[ValueID("input1")].shape

\* The element of the target written at position i of the Zip.
ZipTargetIndex(i) ==
  IF pc = "bwd_zip2"
    THEN BroadcastIndex(i, store[GradientID("input2")].shape, ZipShape)
    ELSE i

\* Mutant of ZipTerm: input2 is read by flat position, not broadcast.
ZipTermUnbroadcast(i) ==
  LET in1 == store[ValueID("input1")]
      in2 == store[ValueID("input2")]
      og == store[GradientID("output")]
      b == i % FlatSize(in2.shape)
  IN CASE pc = "fwd_zip" -> FMul(in1.data[i], in2.data[b])
       [] pc = "bwd_zip1" -> FMul(in2.data[b], og.data[i])
       [] pc = "bwd_zip2" -> FMul(in1.data[i], og.data[i])

\* The product added at position i of the Zip.
ZipTerm(i) ==
  LET in1 == store[ValueID("input1")]
      in2 == store[ValueID("input2")]
      og == store[GradientID("output")]
      b == BroadcastIndex(i, in2.shape, ZipShape)
  IN CASE pc = "fwd_zip" -> FMul(in1.data[i], in2.data[b])
       [] pc = "bwd_zip1" -> FMul(in2.data[b], og.data[i])
       [] pc = "bwd_zip2" -> FMul(in1.data[i], og.data[i])

InZip == pc \in {"fwd_zip", "bwd_zip1", "bwd_zip2"}

\* Mutant of Accumulate: the product overwrites the element.
Overwrite(old, term) == term

\* `*output += input1 * input2`, `*input1_grad += input2 * out_grad`,
\* `*input2_grad += input1 * out_grad`
Accumulate(old, term) == FAdd(old, term)

\* `*x += a * b` is a read of x followed by a write of x.
ZipLoad(k) ==
  /\ InZip
  /\ parts[k].lo <= parts[k].hi
  /\ parts[k].phase = "load"
  /\ parts' = [parts EXCEPT ![k].phase = "store",
                 ![k].reg = store[ZipTarget].data[ZipTargetIndex(parts[k].lo)]]
  /\ UNCHANGED <<store, store0, required, pass, pc, accessed, result>>
  /\ PassOnly

ZipStore(k) ==
  /\ InZip
  /\ parts[k].lo <= parts[k].hi
  /\ parts[k].phase = "store"
  /\ store' = [store EXCEPT ![ZipTarget].data[ZipTargetIndex(parts[k].lo)] =
                 Accumulate(parts[k].reg, ZipTerm(parts[k].lo))]
  /\ parts' = [parts EXCEPT ![k].phase = "load", ![k].lo = parts[k].lo + 1]
  /\ UNCHANGED <<store0, required, pass, pc, accessed, result>>
  /\ PassOnly

ZipDone == \A k \in DOMAIN parts : parts[k].lo > parts[k].hi

\* ---------------------------------------------------- Mul passes: the runs
\* Pass::type_name; PassError carries self.name().
PassName(p) == p

\* Mutant of SameShape: only the element counts are compared.
SameSize(a, b) == FlatSize(a) = FlatSize(b)

\* `input1.shape() == output.shape()`
SameShape(a, b) == a = b

\* The three ensure! checks of MulForward::run and of MulBackward::run, `out`
\* being the output value, respectively the output gradient.
EnsureShapes(in1, in2, out) ==
  /\ SameShape(in1.shape, out.shape)
  /\ BroadcastOk(in2.shape, in1.shape)
  /\ BroadcastOk(in2.shape, out.shape)

\* Storage::is_required
IsRequired(id) == id \in required

\* Mutant of Input2GradGate: input2's gradient is computed unconditionally.
Input2GradUngated == TRUE

\* The gates of MulBackward::run on the two gradients.
Input1GradGate == IsRequired(GradientID("input1"))
Input2GradGate == IsRequired(GradientID("input2"))

\* MulForward::run up to its Zip: the three views are taken (the output's
\* with get_mut), then the shapes are checked.
ForwardBegin ==
  /\ pc = "idle"
  /\ pass = "MulForward"
  /\ UNCHANGED pass
  /\ accessed' = accessed \cup {ValueID("output")}
  /\ IF EnsureShapes(store[ValueID("input1")], store[ValueID("input2")],
                     store[ValueID("output")])
       THEN /\ pc' = "fwd_zip"
            /\ parts' = ForwardZip(FlatSize(store[ValueID("output")].shape))
            /\ UNCHANGED result
       ELSE /\ pc' = "done"
            /\ result' = <<"PassError", PassName("MulForward")>>
            /\ UNCHANGED parts
  /\ UNCHANGED <<store, store0, required>>
  /\ PassOnly

\* MulBackward::run up to its first gate: the three shared views are taken,
\* then the shapes are checked.
BackwardBegin ==
  /\ pc = "idle"
  /\ pass = "MulBackward"
  /\ UNCHANGED pass
  /\ IF EnsureShapes(store[ValueID("input1")], store[ValueID("input2")],
                     store[GradientID("output")])
       THEN /\ pc' = "bwd_gate1"
            /\ UNCHANGED result
       ELSE /\ pc' = "done"
            /\ result' = <<"PassError", PassName("MulBackward")>>
  /\ UNCHANGED <<store, store0, required, parts, accessed>>
  /\ PassOnly

\* `if data.is_required(&self.input1_id.gradient_id())`
BackwardGate1 ==
  /\ pc = "bwd_gate1"
  /\ IF Input1GradGate
       THEN /\ accessed' = accessed \cup {GradientID("input1")}
            /\ parts' = Input1GradZip(FlatSize(store[GradientID("input1")].shape))
            /\ pc' = "bwd_zip1"
       ELSE /\ pc' = "bwd_gate2"
            /\ UNCHANGED <<accessed, parts>>
  /\ UNCHANGED <<store, store0, required, pass, result>>
  /\ PassOnly

\* `if data.is_required(&self.input2_id.gradient_id())`
BackwardGate2 ==
  /\ pc = "bwd_gate2"
  /\ IF Input2GradGate
       THEN /\ accessed' = accessed \cup {GradientID("input2")}
            /\ parts' = Input2GradZip(FlatSize(store[ValueID("input1")].shape))
            /\ pc' = "bwd_zip2"
            /\ UNCHANGED result
       ELSE /\ pc' = "done"
            /\ result' = <<"Ok">>
            /\ UNCHANGED <<accessed, parts>>
  /\ UNCHANGED <<store, store0, required, pass>>
  /\ PassOnly

\* A Zip returns when all its parts have.
ZipEnd ==
  /\ InZip
  /\ ZipDone
  /\ parts' = <<>>
  /\ IF pc = "bwd_zip1"
       THEN pc' = "bwd_gate2" /\ UNCHANGED result
       ELSE pc' = "done" /\ result' = <<"Ok">>
  /\ UNCHANGED <<store, store0, required, pass, accessed>>
  /\ PassOnly

\* Storage before a run: the three nodes' values and gradients, each of its
\* node's shape; the buffers passes accumulate into may hold the sums other
\* passes left there.
PassStorage(s1, s2, so, seed, dirty) ==
  LET acc(shape, salt) == IF dirty THEN Tensor(shape, seed, salt) ELSE Zeros(shape)
  IN [id \in DataIDs |->
        CASE id = ValueID("input1") -> Tensor(s1, seed, 0)
          [] id = ValueID("input2") -> Tensor(s2, seed, 1)
          [] id = ValueID("output") -> acc(so, 2)
          [] id = GradientID("output") -> Tensor(so, seed, 3)
          [] id = GradientID("input1") -> acc(s1, 4)
          [] id = GradientID("input2") -> acc(s2, 5)]

InitPass ==
  /\ \E s1 \in Shapes, s2 \in Shapes, so \in Shapes, seed \in 0..MaxSeed,
        dirty \in BOOLEAN :
       store = PassStorage(s1, s2, so, seed, dirty)
  /\ store0 = store
  /\ required \in SUBSET {GradientID("input1"), GradientID("input2")}
  /\ pass \in {"MulForward", "MulBackward"}
  /\ pc = "idle"
  /\ parts = <<>>
  /\ accessed = {}
  /\ result = <<"none">>
  /\ TestIdle /\ MergeIdle /\ BroadcastIdle /\ ExecIdle /\ PropagateIdle

NextPass ==
  \/ ForwardBegin
  \/ BackwardBegin
  \/ BackwardGate1
  \/ BackwardGate2
  \/ \E k \in DOMAIN parts : ZipLoad(k)
  \/ \E k \in DOMAIN parts : ZipStore(k)
  \/ ZipEnd

\* ------------------------------------------------------------ numeric_test
\* An f32 relative error: finite and not negative, infinite, or NaN.
F32Errors == { <<"fin", v>> : v \in 0..MaxErr } \cup { <<"inf">>, <<"nan">> }

\* `err > tolerance` on f32: false of NaN, true of +infinity.
GreaterThan(err, tol) == err[1] = "inf" \/ (err[1] = "fin" /\ err[2] > tol)

\* f32::is_nan
IsNan(err) == err[1] = "nan"

\* Mutant of CountsAsFailure: NaN is not looked for.
CountsAsFailureNoNan(err, tol) == GreaterThan(err, tol)

\* `param_err > tolerance || param_err.is_nan()`
CountsAsFailure(err, tol) == GreaterThan(err, tol) \/ IsNan(err)

\* One turn of the loop, numeric_error having returned Ok((pe, ie)).
TestTrial(pe, ie) ==
  /\ outcome = "running"
  /\ iter < iters
  /\ param_errs' = Append(param_errs, pe)
  /\ input_errs' = Append(input_errs, ie)
  /\ param_count' = IF CountsAsFailure(pe, tolerance) THEN param_count + 1 ELSE param_count
  /\ input_count' = IF CountsAsFailure(ie, tolerance) THEN input_count + 1 ELSE input_count
  /\ iter' = iter + 1
  /\ UNCHANGED <<iters, failures, tolerance, outcome>>
  /\ TestOnly

\* One turn of the loop, numeric_error having returned Err: `?` returns it.
TestTrialErr ==
  /\ outcome = "running"
  /\ iter < iters
  /\ outcome' = "Err"
  /\ UNCHANGED <<iters, failures, tolerance, iter, param_count, input_count,
                 param_errs, input_errs>>
  /\ TestOnly

\* After the loop: the two assert!s, then Ok(()).
TestFinish ==
  /\ outcome = "running"
  /\ iter = iters
  /\ outcome' = IF ~(param_count <= failures) THEN "PanicParam"
                ELSE IF ~(input_count <= failures) THEN "PanicInput"
                ELSE "Ok"
  /\ UNCHANGED <<iters, failures, tolerance, iter, param_count, input_count,
                 param_errs, input_errs>>
  /\ TestOnly

InitTest ==
  /\ iters \in 0..MaxIters
  /\ failures \in 0..MaxFailures
  /\ tolerance \in 0..MaxErr
  /\ iter = 0
  /\ param_count = 0
  /\ input_count = 0
  /\ param_errs = <<>>
  /\ input_errs = <<>>
  /\ outcome = "running"
  /\ PassIdle /\ MergeIdle /\ BroadcastIdle /\ ExecIdle /\ PropagateIdle

NextTest ==
  \/ \E pe \in F32Errors, ie \in F32Errors : TestTrial(pe, ie)
  \/ TestTrialErr
  \/ TestFinish

\* -------------------------------------------------------------- shape merge
\* NodeDim: Known(extent), Unknown, or an inclusive range of extents.
Known(x) == <<"Known", x>>
Unknown == <<"Unknown">>
Range(lo, hi) == <<"Range", lo, hi>>

NodeDims ==
  { Known(x) : x \in 1..MaxExt } \cup { Unknown }
    \cup UNION { { Range(lo, hi) : hi \in lo..MaxExt } : lo \in 1..MaxExt }

\* NodeShapes of rank 1 and 2.
NodeShapes == [1..1 -> NodeDims] \cup [1..2 -> NodeDims]

Max(x, y) == IF x >= y THEN x ELSE y
Min(x, y) == IF x <= y THEN x ELSE y

\* Mutant of MergeDim: two ranges merge to their hull, never failing.
MergeDimHull(x, y) ==
  CASE x[1] = "Unknown" -> y
    [] y[1] = "Unknown" -> x
    [] x[1] = "Known" /\ y[1] = "Known" -> IF x[2] = y[2] THEN x ELSE <<"Conflict">>
    [] x[1] = "Known" /\ y[1] = "Range" ->
         IF y[2] <= x[2] /\ x[2] <= y[3] THEN x ELSE <<"Conflict">>
    [] x[1] = "Range" /\ y[1] = "Known" ->
         IF x[2] <= y[2] /\ y[2] <= x[3] THEN y ELSE <<"Conflict">>
    [] x[1] = "Range" /\ y[1] = "Range" -> Range(Min(x[2], y[2]), Max(x[3], y[3]))

\* The merge rule of one dimension: Known with Known is valid only if equal;
\* Unknown is absorbed; a range with a Known is valid only if the value lies
\* in the range, and resolves to the Known; two ranges intersect, an empty
\* intersection being a failure.
MergeDim(x, y) ==
  CASE x[1] = "Unknown" -> y
    [] y[1] = "Unknown" -> x
    [] x[1] = "Known" /\ y[1] = "Known" -> IF x[2] = y[2] THEN x ELSE <<"Conflict">>
    [] x[1] = "Known" /\ y[1] = "Range" ->
         IF y[2] <= x[2] /\ x[2] <= y[3] THEN x ELSE <<"Conflict">>
    [] x[1] = "Range" /\ y[1] = "Known" ->
         IF x[2] <= y[2] /\ y[2] <= x[3] THEN y ELSE <<"Conflict">>
    [] x[1] = "Range" /\ y[1] = "Range" ->
         IF Max(x[2], y[2]) <= Min(x[3], y[3])
           THEN Range(Max(x[2], y[2]), Min(x[3], y[3]))
           ELSE <<"Conflict">>

\* NodeShape::merge: <<"Ok", shape>>, or <<"Err">> when the ranks differ or a
\* pair of dimensions is incompatible.
Merge(a, b) ==
  IF Len(a) /= Len(b) THEN <<"Err">>
  ELSE LET m == [k \in 1..Len(a) |-> MergeDim(a[k], b[k])]
       IN IF \E k \in 1..Len(a) : m[k] = <<"Conflict">> THEN <<"Err">> ELSE <<"Ok", m>>

\* `x.merge(y)?.merge(z)`: an error ends the chain.
MergeResult(r, b) == IF r[1] = "Ok" THEN Merge(r[2], b) ELSE <<"Err">>

\* The three shapes merged in both groupings, and the first with itself.
MergeShapes ==
  /\ mpc = "start"
  /\ mergedLeft' = MergeResult(Merge(shapeA, shapeB), shapeC)
  /\ mergedRight' = (LET bc == Merge(shapeB, shapeC)
                     IN IF bc[1] = "Ok" THEN Merge(shapeA, bc[2]) ELSE <<"Err">>)
  /\ mergedSelf' = Merge(shapeA, shapeA)
  /\ mpc' = "done"
  /\ UNCHANGED <<shapeA, shapeB, shapeC>>
  /\ MergeOnly

InitMerge ==
  /\ shapeA \in NodeShapes
  /\ shapeB \in { s \in NodeShapes : Len(s) = Len(shapeA) }
  /\ shapeC \in { s \in NodeShapes : Len(s) = Len(shapeA) }
  /\ mpc = "start"
  /\ mergedLeft = <<"none">>
  /\ mergedRight = <<"none">>
  /\ mergedSelf = <<"none">>
  /\ PassIdle /\ TestIdle /\ BroadcastIdle /\ ExecIdle /\ PropagateIdle

NextMerge == MergeShapes

\* ---------------------------------- MulInstance::propagate_shape_constraints
\* Mutant of RelaxDim: Known(1) is kept.
RelaxDimKeepOne(dim) ==
  CASE dim[1] = "Known" -> <<"Dim", dim>>
    [] OTHER -> <<"Unreachable">>

\* The match on one dimension of input2: Known(1) becomes Unknown, any other
\* Known is kept, and every other dimension takes the unreachable!() arm.
RelaxDim(dim) ==
  CASE dim[1] = "Known" /\ dim[2] = 1 -> <<"Dim", Unknown>>
    [] dim[1] = "Known" -> <<"Dim", dim>>
    [] OTHER -> <<"Unreachable">>

\* shapes.merge_with(node, shape): the node's shape merged with `shape`
\* replaces it; on a conflict the error is returned and the shapes stay.
MergeWith(shapes, node, shape) ==
  LET r == Merge(shapes[node], shape)
  IN IF r[1] = "Ok" THEN <<"Ok", [shapes EXCEPT ![node] = r[2]]>> ELSE <<"Err">>

PropagateShapeConstraints ==
  /\ ppc = "start"
  /\ LET in2 == gShapes["input2"]
         relaxed == [k \in 1..Len(in2) |-> RelaxDim(in2[k])]
     IN IF \E k \in 1..Len(in2) : relaxed[k] = <<"Unreachable">>
          THEN /\ ppc' = "panicked"
               /\ UNCHANGED <<gShapes, propResult>>
          ELSE LET output_shape == [k \in 1..Len(in2) |-> relaxed[k][2]]
                   merged == Merge(output_shape, gShapes["input1"])
                   stored == IF merged[1] = "Ok"
                               THEN MergeWith(gShapes, "output", merged[2])
                               ELSE <<"Err">>
               IN /\ ppc' = "returned"
                  /\ IF stored[1] = "Ok"
                       THEN gShapes' = stored[2] /\ propResult' = <<"Ok">>
                       ELSE UNCHANGED gShapes /\ propResult' = <<"Err">>
  /\ UNCHANGED gShapes0
  /\ PropagateOnly

\* The shapes the three nodes of a Mul can hold when its rule is called.
InitPropagate ==
  /\ \E s2 \in NodeShapes :
       \E s1 \in { s \in NodeShapes : Len(s) = Len(s2) } :
         \E so \in { s \in NodeShapes : Len(s) = Len(s2) } :
           gShapes = [n \in Nodes |->
                        CASE n = "input1" -> s1 [] n = "input2" -> s2 [] n = "output" -> so]
  /\ gShapes0 = gShapes
  /\ ppc = "start"
  /\ propResult = <<"none">>
  /\ PassIdle /\ TestIdle /\ MergeIdle /\ BroadcastIdle /\ ExecIdle

NextPropagate == PropagateShapeConstraints

\* ---------------------------------------------------------------- Broadcast
\* The NodeShape of broadcast.rs: a channel count and spatial dimensions,
\* each Fixed(extent) or a range of extents.
Fixed(v) == <<"Fixed", v>>

SpatialDims ==
  { Fixed(v) : v \in 1..MaxDim } \cup { Range(1, v) : v \in 2..MaxDim }

ChannelShapes ==
  { [channels |-> c, spatial |-> sp] :
      c \in 1..MaxElems, sp \in {<<>>} \cup [1..1 -> SpatialDims] }

IsFixedShape(s) == \A k \in DOMAIN s.spatial : s.spatial[k][1] = "Fixed"

\* NodeShape::force_flat_size: the element count of a shape all of whose
\* dimensions are fixed, an error otherwise.
ForceFlatSize(s) ==
  IF IsFixedShape(s)
    THEN <<"Ok", s.channels * Product([k \in DOMAIN s.spatial |-> s.spatial[k][2]])>>
    ELSE <<"Err">>

\* NodeShape::collapse_ranges_to_minimum: every range becomes its lower
\* bound.
CollapseRangesToMinimum(s) ==
  [s EXCEPT !.spatial =
     [k \in DOMAIN s.spatial |->
        IF s.spatial[k][1] = "Range" THEN Fixed(s.spatial[k][2]) ELSE s.spatial[k]]]

\* The input shape whose flat size propagate_shape_constraints compares with
\* output_channels: `self.input_id.shape`, the NodeID's own shape.
PropagatedInputShape == bcInput

\* Broadcast::new
BroadcastNew ==
  /\ bcpc = "nodes"
  /\ LET size == ForceFlatSize(bcInput)
     IN IF size[1] = "Err"
          THEN bcpc' = "panicked" /\ bcPanic' = "new: requires a fixed shape"
                 /\ UNCHANGED bcOp
        ELSE IF bcOutput.channels /= size[2]
          THEN bcpc' = "panicked" /\ bcPanic' = "new: channel dimension"
                 /\ UNCHANGED bcOp
        ELSE bcpc' = "built" /\ bcOp' = [output_channels |-> bcOutput.channels]
               /\ UNCHANGED bcPanic
  /\ UNCHANGED <<bcInput, bcOutput, bcShapes, bcIn, bcOut>>
  /\ BroadcastOnly

\* The propagation engine comes to hold another shape for the input node
\* (a constraint of another operation, or the shape of the data supplied).
EngineReshape(s) ==
  /\ bcpc = "built"
  /\ bcShapes' = s
  /\ UNCHANGED <<bcInput, bcOutput, bcOp, bcpc, bcPanic, bcIn, bcOut>>
  /\ BroadcastOnly

\* Broadcast::propagate_shape_constraints
BroadcastPropagate ==
  /\ bcpc = "built"
  /\ bcShapes' = CollapseRangesToMinimum(bcShapes)
  /\ LET size == ForceFlatSize(PropagatedInputShape)
     IN IF size[1] = "Err"
          THEN bcpc' = "panicked" /\ bcPanic' = "propagate: requires a fixed shape"
        ELSE IF bcOp.output_channels /= size[2]
          THEN bcpc' = "panicked" /\ bcPanic' = "propagate: flat size has changed"
        ELSE IF bcOutput.channels /= bcOp.output_channels
          THEN bcpc' = "panicked" /\ bcPanic' = "propagate: channel has changed"
        ELSE bcpc' = "propagated" /\ UNCHANGED bcPanic
  /\ bcIn' = [i \in 0 .. ForceFlatSize(bcShapes')[2] - 1 |-> i + 1]
  /\ bcOut' = [j \in 0 .. ForceFlatSize(bcOutput)[2] - 1 |-> 0]
  /\ UNCHANGED <<bcInput, bcOutput, bcOp>>
  /\ BroadcastOnly

\* Broadcast::forward, on data of the shapes the engine resolved (one batch
\* item): each chunk of output_channels output values has the input added.
BroadcastForward ==
  /\ bcpc = "propagated"
  /\ LET in_size == Cardinality(DOMAIN bcIn)
         c == bcOp.output_channels
     IN IF in_size /= c
          THEN bcpc' = "panicked" /\ bcPanic' = "forward: in_size" /\ UNCHANGED bcOut
          ELSE /\ bcpc' = "ran"
               /\ bcOut' = [j \in DOMAIN bcOut |-> bcOut[j] + bcIn[j % c]]
               /\ UNCHANGED bcPanic
  /\ UNCHANGED <<bcInput, bcOutput, bcOp, bcShapes, bcIn>>
  /\ BroadcastOnly

InitBroadcast ==
  /\ bcInput \in ChannelShapes
  /\ bcOutput \in { s \in ChannelShapes : IsFixedShape(s) }
  /\ bcShapes = bcInput
  /\ bcOp = <<>>
  /\ bcpc = "nodes"
  /\ bcPanic = ""
  /\ bcIn = <<>>
  /\ bcOut = <<>>
  /\ PassIdle /\ TestIdle /\ MergeIdle /\ ExecIdle /\ PropagateIdle

NextBroadcast ==
  \/ BroadcastNew
  \/ \E s \in ChannelShapes : EngineReshape(s)
  \/ BroadcastPropagate
  \/ BroadcastForward

\* ------------------------------------- the graph of _mul_backprop, executed
\* node1..node4 of _mul_backprop: Mul(input1, input2) -> output, and
\* Mse(output, target).
GraphNodes == {"input1", "input2", "output", "target"}

GraphDataIDs ==
  { ValueID(n) : n \in GraphNodes } \cup { GradientID(n) : n \in GraphNodes }

Passes == {"MulForward", "MulBackward", "Mse"}

\* MulForward::dependencies
MulForwardDependencies ==
  [reads |-> {ValueID("input1"), ValueID("input2")},
   writes |-> {ValueID("output")}]

\* Mutant of MulBackwardDependencies: the output gradient is not declared.
MulBackwardDependenciesNoGrad ==
  [reads |-> {ValueID("input1"), ValueID("input2")},
   writes |-> {GradientID("input1"), GradientID("input2")}]

\* MulBackward::dependencies
MulBackwardDependencies ==
  [reads |-> {ValueID("input1"), ValueID("input2"), GradientID("output")},
   writes |-> {GradientID("input1"), GradientID("input2")}]

\* The loss pass of Mse::new(output, target): it reads both values and
\* accumulates into both gradients and into the loss.
MseDependencies ==
  [reads |-> {ValueID("output"), ValueID("target")},
   writes |-> {GradientID("output"), GradientID("target")}]

PassDependencies(p) ==
  CASE p = "MulForward" -> MulForwardDependencies
    [] p = "MulBackward" -> MulBackwardDependencies
    [] p = "Mse" -> MseDependencies

\* The DataIDs a pass's run reads: the views it takes with data.get.
RunReads(p) ==
  CASE p = "MulForward" -> {ValueID("input1"), ValueID("input2")}
    [] p = "MulBackward" -> {ValueID("input1"), ValueID("input2"), GradientID("output")}
    [] p = "Mse" -> {ValueID("output"), ValueID("target")}

\* The DataIDs a pass's run writes: the views it takes with data.get_mut.
RunWrites(p) ==
  CASE p = "MulForward" -> {ValueID("output")}
    [] p = "MulBackward" -> {GradientID("input1"), GradientID("input2")}
    [] p = "Mse" -> {GradientID("output"), GradientID("target")}

\* Dependencies::data_inputs: the passes that write a DataID.
DataInputs(d) == { p \in Passes : d \in PassDependencies(p).writes }

\* numeric_error's input_ids and parameter_ids: the nodes whose value no
\* pass writes, without and with the Parameter tag.
Leaves == { n \in GraphNodes : DataInputs(ValueID(n)) = {} }
InputIds == { n \in Leaves : n \notin tags }
ParameterIds == { n \in Leaves : n \in tags }

\* graph.subgraph(values of the leaves, gradients of the leaves)
SubgraphInputs == { ValueID(n) : n \in Leaves }
SubgraphOutputs == { GradientID(n) : n \in Leaves }

RECURSIVE NeededPasses(_)
\* The passes needed for the outputs: those that write an output, or a
\* DataID a needed pass reads, the walk ending at the subgraph's inputs.
NeededPasses(S) ==
  LET wanted == (SubgraphOutputs \cup UNION { PassDependencies(p).reads : p \in S })
                  \ SubgraphInputs
      more == S \cup { p \in Passes : PassDependencies(p).writes \cap wanted /= {} }
  IN IF more = S THEN S ELSE NeededPasses(more)

Scheduled == NeededPasses({})

\* What Storage reports as required: the outputs, and what the passes read.
RequiredData ==
  SubgraphOutputs \cup UNION { PassDependencies(p).reads : p \in Scheduled }

FreshStorage(data) ==
  [id \in GraphDataIDs |->
     IF id \in SubgraphInputs THEN data[id[1]] ELSE Zeros(nodeShape[id[1]])]

\* Mutant of AllocStorage: the buffers of the previous call are kept.
KeepStorage(data) ==
  IF store = <<>> THEN FreshStorage(data)
  ELSE [id \in GraphDataIDs |->
          IF id \in SubgraphInputs THEN data[id[1]] ELSE store[id]]

\* The Storage of one execute call: the caller's buffers for the inputs,
\* fresh zeroed buffers for every other DataID.
AllocStorage(data) == FreshStorage(data)

\* ------------------------------------------------------------ numeric_error
ISqrt(n) == CHOOSE r \in 0..n : r * r <= n /\ n < (r + 1) * (r + 1)

Abs(x) == IF x < 0 THEN -x ELSE x

\* Division rounding towards zero.
TruncDiv(a, b) == IF a < 0 THEN -((-a) \div b) ELSE a \div b

\* step's grad_dot: the squares of the baseline gradients of all the nodes
\* of the group, summed.
GradDot(group) ==
  SumOver([n \in group |->
             LET g == output0.grads[n].data
             IN SumOver([i \in DOMAIN g |-> g[i] * g[i]], DOMAIN g)],
          group)

GradNorm(group) == ISqrt(GradDot(group))

\* data.scaled_add(sign * step_size / grad_dot.sqrt(), grad), by element; a
\* norm of zero makes the factor infinite and the element NaN.
ScaledAdd(x, sign, g, norm) ==
  IF norm = 0 THEN NaN ELSE x + sign * TruncDiv(StepSize * g, norm)

\* Mutant of Step: each node is moved by the norm of its own gradient.
StepPerNode(sign, group) ==
  [n \in Leaves |->
     IF n \in group
       THEN [shape |-> data0[n].shape,
             data |-> [i \in DOMAIN data0[n].data |->
                         ScaledAdd(data0[n].data[i], sign,
                                   output0.grads[n].data[i], GradNorm({n}))]]
       ELSE data0[n]]

\* step: the data of the leaves with those of the group moved along their
\* gradient.
Step(sign, group) ==
  [n \in Leaves |->
     IF n \in group
       THEN [shape |-> data0[n].shape,
             data |-> [i \in DOMAIN data0[n].data |->
                         ScaledAdd(data0[n].data[i], sign,
                                   output0.grads[n].data[i], GradNorm(group))]]
       ELSE data0[n]]

CallPcs == {"exec0", "param1", "param2", "input1", "input2"}

\* data_0, data_1 and data_2 of the parameter trial and of the input trial.
CallData(at) ==
  CASE at = "exec0" -> data0
    [] at = "param1" -> Step(-1, ParameterIds)
    [] at = "param2" -> Step(1, ParameterIds)
    [] at = "input1" -> Step(-1, InputIds)
    [] at = "input2" -> Step(1, InputIds)

\* `err.abs() / diff.abs().max(expected_diff.abs())`, as a fraction.
RelativeError(loss_1, loss_2, grad_norm) ==
  LET expected_diff == 2 * StepSize * grad_norm
      diff == FAdd(loss_2, IF loss_1 = NaN THEN NaN ELSE -loss_1)
      err == FAdd(expected_diff, IF diff = NaN THEN NaN ELSE -diff)
  IN IF err = NaN \/ (err = 0 /\ diff = 0 /\ expected_diff = 0) THEN <<NaN, NaN>>
     ELSE <<Abs(err), Max(Abs(diff), Abs(expected_diff))>>

SaltOf(n) ==
  CASE n = "input1" -> 0 [] n = "input2" -> 1 [] n = "output" -> 2 [] n = "target" -> 3

\* generate_input_data for the leaves.
NumericErrorSample ==
  /\ nepc = "start"
  /\ data0' = [n \in Leaves |-> Tensor(nodeShape[n], fillSeed, SaltOf(n))]
  /\ output0' = <<>>
  /\ losses' = <<>>
  /\ errs' = [param |-> <<0, 1>>, input |-> <<0, 1>>]
  /\ nepc' = "exec0"
  /\ UNCHANGED <<nodeShape, fillSeed, tags, exData, sched, loss, calls, trial>>
  /\ UNCHANGED passVars
  /\ ExecOnly

\* subgraph.execute(data), up to its first pass.
ExecuteBegin ==
  /\ nepc \in CallPcs
  /\ sched = <<>>
  /\ exData' = CallData(nepc)
  /\ store' = AllocStorage(CallData(nepc))
  /\ required' = RequiredData
  /\ sched' = [p \in Scheduled |-> "pending"]
  /\ loss' = 0
  /\ pass' = "none" /\ pc' = "off" /\ parts' = <<>> /\ accessed' = {}
  /\ result' = <<"none">>
  /\ UNCHANGED <<store0, nodeShape, fillSeed, tags, nepc, data0, output0, losses, errs,
                 calls, trial>>
  /\ ExecOnly

\* The engine starts a pass: no pass is running, and every scheduled pass
\* that writes a DataID the pass declares it reads has finished.
PassStart(p) ==
  /\ sched /= <<>>
  /\ p \in DOMAIN sched
  /\ sched[p] = "pending"
  /\ \A q \in DOMAIN sched : sched[q] /= "running"
  /\ \A q \in DOMAIN sched \ {p} :
       PassDependencies(q).writes \cap PassDependencies(p).reads /= {}
         => sched[q] = "done"
  /\ sched' = [sched EXCEPT ![p] = "running"]
  /\ pass' = p /\ pc' = "idle" /\ parts' = <<>> /\ accessed' = {}
  /\ result' = <<"none">>
  /\ store0' = store
  /\ UNCHANGED <<store, required>>
  /\ UNCHANGED <<nodeShape, fillSeed, tags, nepc, data0, output0, losses, errs, exData,
                 loss, calls, trial>>
  /\ ExecOnly

\* The run of the Mse loss pass: the squared differences are added to the
\* loss, their derivatives to the gradients of output and target.
MseRun ==
  /\ pass = "Mse"
  /\ pc = "idle"
  /\ LET out == store[ValueID("output")].data
         tgt == store[ValueID("target")].data
         d == [i \in DOMAIN out |-> FAdd(out[i], FMul(-1, tgt[i]))]
         sq == IF \E i \in DOMAIN d : d[i] = NaN THEN NaN
               ELSE SumOver([i \in DOMAIN d |-> d[i] * d[i]], DOMAIN d)
     IN /\ loss' = FAdd(loss, sq)
        /\ store' = [store EXCEPT
             ![GradientID("output")].data =
                [i \in DOMAIN out |-> FAdd(@[i], FMul(2, d[i]))],
             ![GradientID("target")].data =
                [i \in DOMAIN out |->
                   IF IsRequired(GradientID("target"))
                     THEN FAdd(@[i], FMul(-2, d[i])) ELSE @[i]]]
  /\ pc' = "done"
  /\ result' = <<"Ok">>
  /\ UNCHANGED <<store0, required, pass, parts, accessed>>
  /\ UNCHANGED <<nodeShape, fillSeed, tags, nepc, data0, output0, losses, errs, exData,
                 sched, calls, trial>>
  /\ ExecOnly

\* A run has returned: `?` ends the call, and numeric_error, on an error.
PassFinish ==
  /\ sched /= <<>>
  /\ pc = "done"
  /\ pass \in DOMAIN sched
  /\ sched[pass] = "running"
  /\ IF result = <<"Ok">>
       THEN /\ sched' = [sched EXCEPT ![pass] = "done"]
            /\ UNCHANGED <<nepc, exData>>
       ELSE /\ sched' = <<>>
            /\ exData' = <<>>
            /\ nepc' = "failed"
  /\ pc' = "off"
  /\ UNCHANGED <<store, store0, required, pass, parts, accessed, result>>
  /\ UNCHANGED <<nodeShape, fillSeed, tags, data0, output0, losses, errs, loss, calls,
                 trial>>
  /\ ExecOnly

\* What a call returns: the gradients of the leaves, and the loss.
Returned == [grads |-> [n \in Leaves |-> store[GradientID(n)]], loss |-> loss]

AfterParams == IF InputIds /= {} THEN "input1" ELSE "return"

\* execute returns, and numeric_error goes on with what it returned.
ExecuteEnd ==
  /\ sched /= <<>>
  /\ \A p \in DOMAIN sched : sched[p] = "done"
  /\ calls' = Append(calls, [data |-> exData, out |-> Returned])
  /\ sched' = <<>>
  /\ exData' = <<>>
  /\ CASE nepc = "exec0" ->
            /\ output0' = Returned
            /\ nepc' = IF ParameterIds /= {} THEN "param1" ELSE AfterParams
            /\ UNCHANGED <<losses, errs>>
       [] nepc = "param1" ->
            /\ losses' = <<loss>>
            /\ nepc' = "param2"
            /\ UNCHANGED <<output0, errs>>
       [] nepc = "param2" ->
            /\ errs' = [errs EXCEPT !.param =
                          RelativeError(losses[1], loss, GradNorm(ParameterIds))]
            /\ losses' = <<>>
            /\ nepc' = AfterParams
            /\ UNCHANGED output0
       [] nepc = "input1" ->
            /\ losses' = <<loss>>
            /\ nepc' = "input2"
            /\ UNCHANGED <<output0, errs>>
       [] nepc = "input2" ->
            /\ errs' = [errs EXCEPT !.input =
                          RelativeError(losses[1], loss, GradNorm(InputIds))]
            /\ losses' = <<>>
            /\ nepc' = "return"
            /\ UNCHANGED output0
  /\ UNCHANGED passVars
  /\ UNCHANGED <<nodeShape, fillSeed, tags, data0, loss, trial>>
  /\ ExecOnly

\* numeric_error returns Ok((param_err, input_err)); numeric_test calls it
\* again.
NumericErrorReturn ==
  /\ nepc = "return"
  /\ trial' = trial + 1
  /\ nepc' = IF trial + 1 < MaxTrials THEN "start" ELSE "finished"
  /\ UNCHANGED <<nodeShape, fillSeed, tags, data0, output0, losses, errs, exData, sched,
                 loss, calls>>
  /\ UNCHANGED passVars
  /\ ExecOnly

\* The Parameter tags of the graph's nodes: none as in _mul_backprop, either
\* or both inputs of the Mul, or every leaf.
TagSets == SUBSET {"input1", "input2"} \cup {{"input1", "input2", "target"}}

\* The graph: input2's shape broadcasts to input1's, which output and target
\* share.
InitExec ==
  /\ \E s1 \in Shapes, s2 \in Shapes :
       /\ Len(s2) = Len(s1)
       /\ BroadcastOk(s2, s1)
       /\ nodeShape = [n \in GraphNodes |-> IF n = "input2" THEN s2 ELSE s1]
  /\ fillSeed \in 0..MaxSeed
  /\ tags \in TagSets
  /\ nepc = "start"
  /\ data0 = <<>> /\ output0 = <<>> /\ losses = <<>> /\ errs = <<>>
  /\ exData = <<>> /\ sched = <<>> /\ loss = 0 /\ calls = <<>> /\ trial = 0
  /\ PassIdle /\ TestIdle /\ MergeIdle /\ BroadcastIdle /\ PropagateIdle

NextExec ==
  \/ NumericErrorSample
  \/ ExecuteBegin
  \/ \E p \in Passes : PassStart(p)
  \/ ForwardBegin
  \/ BackwardBegin
  \/ BackwardGate1
  \/ BackwardGate2
  \/ \E k \in DOMAIN parts : ZipLoad(k)
  \/ \E k \in DOMAIN parts : ZipStore(k)
  \/ ZipEnd
  \/ MseRun
  \/ PassFinish
  \/ ExecuteEnd
  \/ NumericErrorReturn

\* ------------------------------------------------------- the specifications
SpecExec == InitExec /\ [][NextExec]_vars
SpecPropagate == InitPropagate /\ [][NextPropagate]_vars

SpecBroadcast == InitBroadcast /\ [][NextBroadcast]_vars

SpecMerge == InitMerge /\ [][NextMerge]_vars

SpecPass == InitPass /\ [][NextPass]_vars

SpecTest == InitTest /\ [][NextTest]_vars

\* ------------------------------------------------ properties of the passes
\* The element of a tensor of shape `from` that position i of shape `to`
\* sees when the tensor is repeated along its extent-1 (and missing leading)
\* axes: the one whose index agrees with i's on every other axis.
RepeatedElement(i, from, to) ==
  CHOOSE j \in Indices(from) :
    \A k \in 1..Len(from) :
      from[k] = 1 \/ AxisIndex(j, from, k) = AxisIndex(i, to, k + Len(to) - Len(from))

Shape0(id) == store0[id].shape
Data0(id) == store0[id].data
Data(id) == store[id].data

RunOk(p) == pass = p /\ pc = "done" /\ result = <<"Ok">>

BothGradsRequired ==
  {GradientID("input1"), GradientID("input2")} \subseteq required

\* C2: after MulBackward::run succeeds with both gradients required, every
\* element i of input1's gradient has grown by input2[broadcast(i)] *
\* output_grad[i], and every element j of input2's gradient by the sum of
\* input1[i] * output_grad[i] over the positions i that broadcast to j; what
\* the two buffers held before is added to.
C2_BackwardAccumulates ==
  (RunOk("MulBackward") /\ BothGradsRequired) =>
    LET s1 == Shape0(ValueID("input1"))
        s2 == Shape0(ValueID("input2"))
        in1 == Data0(ValueID("input1"))
        in2 == Data0(ValueID("input2"))
        og == Data0(GradientID("output"))
    IN /\ \A i \in Indices(s1) :
            Data(GradientID("input1"))[i] =
              Data0(GradientID("input1"))[i] + in2[RepeatedElement(i, s2, s1)] * og[i]
       /\ \A j \in Indices(s2) :
            Data(GradientID("input2"))[j] =
              Data0(GradientID("input2"))[j]
                + SumOver([i \in Indices(s1) |-> in1[i] * og[i]],
                          { i \in Indices(s1) : RepeatedElement(i, s2, s1) = j })

\* A successful backward run with both gradients required, input2 broadcast
\* over several positions of input1, into buffers that were not zero.
C2_Witness ==
  /\ RunOk("MulBackward")
  /\ BothGradsRequired
  /\ FlatSize(Shape0(ValueID("input1"))) > FlatSize(Shape0(ValueID("input2")))
  /\ \E j \in Indices(Shape0(ValueID("input2"))) : Data0(GradientID("input2"))[j] /= 0
  /\ Data(GradientID("input2")) /= Data0(GradientID("input2"))
  /\ Data(GradientID("input1")) /= Data0(GradientID("input1"))

\* C3: after MulForward::run succeeds, every element i of the output value is
\* its previous value plus input1[i] * input2[broadcast(i)]; the values of
\* input1 and input2 are unchanged.
C3_ForwardAccumulates ==
  RunOk("MulForward") =>
    LET s1 == Shape0(ValueID("input1"))
        s2 == Shape0(ValueID("input2"))
    IN /\ \A i \in Indices(s1) :
            Data(ValueID("output"))[i] =
              Data0(ValueID("output"))[i]
                + Data0(ValueID("input1"))[i]
                    * Data0(ValueID("input2"))[RepeatedElement(i, s2, s1)]
       /\ store[ValueID("input1")] = store0[ValueID("input1")]
       /\ store[ValueID("input2")] = store0[ValueID("input2")]

\* A successful forward run with input2 broadcast, onto an output that was
\* not zero.
C3_Witness ==
  /\ RunOk("MulForward")
  /\ FlatSize(Shape0(ValueID("input1"))) > FlatSize(Shape0(ValueID("input2")))
  /\ FlatSize(Shape0(ValueID("input2"))) > 1
  /\ \E i \in Indices(Shape0(ValueID("output"))) : Data0(ValueID("output"))[i] /= 0
  /\ Data(ValueID("output")) /= Data0(ValueID("output"))

InputGradients == {GradientID("input1"), GradientID("input2")}

\* C4: MulBackward::run takes mutable access to, and writes, an input's
\* gradient only if Storage reports it required; a gradient that is not
\* required is never accessed or modified, and the run still succeeds.
C4_GradientsGated ==
  pass = "MulBackward" =>
    /\ \A g \in InputGradients :
         ~IsRequired(g) => (g \notin accessed /\ store[g] = store0[g])
    /\ accessed \subseteq InputGradients
    /\ (pc = "done" /\ EnsureShapes(store0[ValueID("input1")], store0[ValueID("input2")],
                                    store0[GradientID("output")]))
         => result = <<"Ok">>

\* A successful backward run in which exactly one gradient was required, and
\* was written.
C4_Witness ==
  /\ RunOk("MulBackward")
  /\ Cardinality(required \cap InputGradients) = 1
  /\ \E g \in InputGradients : g \in accessed /\ store[g] /= store0[g]

\* The shapes a run rejects: input1's is not the output's (the output
\* gradient's), or input2 does not broadcast to it.
ShapesMismatch(out) ==
  \/ Shape0(ValueID("input1")) /= Shape0(out)
  \/ ~BroadcastOk(Shape0(ValueID("input2")), Shape0(out))

PartTargets(k) == { ZipTargetIndex(i) : i \in parts[k].lo .. parts[k].hi }

\* C7: in MulBackward the accumulation into input2's gradient, where many
\* positions alias one element, has a single sequential writer, so no two
\* writers ever have the same element to write and no update is lost; the
\* accumulation into input1's gradient is split over the workers, each
\* element written by exactly one of them.
C7_Input2GradSerialized ==
  /\ InZip =>
       \A k \in DOMAIN parts : \A l \in DOMAIN parts :
         k /= l => PartTargets(k) \cap PartTargets(l) = {}
  /\ pc = "bwd_zip2" => Len(parts) = 1
  /\ pc = "bwd_zip1" => Len(parts) = NParts
  /\ (RunOk("MulBackward") /\ IsRequired(GradientID("input2"))) =>
       \A j \in Indices(Shape0(ValueID("input2"))) :
         Data(GradientID("input2"))[j] - Data0(GradientID("input2"))[j] =
           SumOver([i \in Indices(Shape0(ValueID("input1"))) |->
                      Data0(ValueID("input1"))[i] * Data0(GradientID("output"))[i]],
                   BroadcastPositions(j, Shape0(ValueID("input2")),
                                      Shape0(ValueID("input1"))))

\* The sequential Zip under way on an element several positions alias, after
\* the data-parallel Zip into input1's gradient.
C7_Witness ==
  /\ pc = "bwd_zip2"
  /\ GradientID("input1") \in accessed
  /\ parts[1].lo > 0
  /\ parts[1].phase = "store"
  /\ Cardinality(BroadcastPositions(ZipTargetIndex(parts[1].lo),
                                    Shape0(ValueID("input2")),
                                    Shape0(ValueID("input1")))) > 1

\* -------------------------------------------------- properties of the test
Finished == outcome \in {"Ok", "PanicParam", "PanicInput"}

Trials == 1..Len(param_errs)

\* A relative error that exceeds the tolerance or is not finite.
BadError(err) == err[1] /= "fin" \/ err[2] > tolerance

\* C5, as claimed: numeric_test declares the gradient correct if and only if
\* the number of trials in which the parameter error or the input error
\* exceeds the tolerance or is non-finite is at most `failures`.
C5_OneBudgetForTrials ==
  Finished =>
    (outcome = "Ok" <=>
       Cardinality({ t \in Trials : BadError(param_errs[t]) \/ BadError(input_errs[t]) })
         <= failures)

\* C5, amended: the two kinds of error are counted separately, and each
\* count is held against the budget: the gradient is declared correct if and
\* only if at most `failures` trials have a bad parameter error and at most
\* `failures` trials have a bad input error. All `iters` trials are made.
C5_OneBudgetPerKind ==
  Finished =>
    /\ Len(param_errs) = iters /\ Len(input_errs) = iters
    /\ (outcome = "Ok") <=>
         (/\ Cardinality({ t \in Trials : BadError(param_errs[t]) }) <= failures
          /\ Cardinality({ t \in Trials : BadError(input_errs[t]) }) <= failures)

\* The test passes although two trials failed against a budget of one: one
\* on a NaN parameter error, the other on an infinite input error.
C5_Witness ==
  /\ outcome = "Ok"
  /\ failures = 1
  /\ Len(param_errs) = 2
  /\ param_errs[1] = <<"nan">> /\ ~BadError(input_errs[1])
  /\ input_errs[2] = <<"inf">> /\ ~BadError(param_errs[2])

\* ------------------------------------------------- properties of the merge
\* C9: shape merge is associative and idempotent: for NodeShapes a, b, c of
\* equal rank, merge(merge(a, b), c) and merge(a, merge(b, c)) are the same
\* shape or both fail, and merge(a, a) is a.
C9_MergeAssociativeIdempotent ==
  mpc = "done" =>
    /\ mergedLeft = mergedRight
    /\ mergedSelf = <<"Ok", shapeA>>

\* Three shapes of rank 2 whose ranges narrow step by step, merged both ways.
C9_Witness ==
  /\ mpc = "done"
  /\ Len(shapeA) = 2
  /\ shapeA[1][1] = "Range" /\ shapeB[1][1] = "Range" /\ shapeC[1][1] = "Known"
  /\ shapeA[1] /= shapeB[1]
  /\ shapeA[2][1] = "Unknown" /\ shapeC[2][1] = "Range"
  /\ mergedLeft[1] = "Ok"
  /\ mergedLeft[2] /= shapeA /\ mergedLeft[2] /= shapeB /\ mergedLeft[2] /= shapeC

\* --------------------------------------------- properties of the Broadcast
\* C10: a Broadcast whose output channel dimension differs from the fixed
\* flat size of its input node fails construction; and once the shape the
\* propagation engine holds for the input node has a flat size other than
\* the output channel count, propagate_shape_constraints fails: it never
\* returns with such a shape resolved.
C10_PropagationRejectsMismatch ==
  /\ bcpc \in {"built", "propagated", "ran"} =>
       ForceFlatSize(bcInput) = <<"Ok", bcOutput.channels>>
  /\ bcpc \in {"propagated", "ran"} =>
       ForceFlatSize(bcShapes) = <<"Ok", bcOp.output_channels>>

\* ----------------------------------------------------------- execute, twice
Running == { p \in DOMAIN sched : sched[p] = "running" }

NotStarted == sched /= <<>> /\ \A p \in DOMAIN sched : sched[p] = "pending"

NonZero(t) == \E i \in DOMAIN t.data : t.data[i] /= 0

\* C1: two execute calls on the subgraph with identical input buffers return
\* identical gradients and loss, and when a call starts every buffer that is
\* not an input is zero and the loss is zero: nothing an earlier call
\* accumulated is left.
C1_ExecuteIdempotent ==
  /\ \A i \in DOMAIN calls : \A j \in DOMAIN calls :
       calls[i].data = calls[j].data => calls[i].out = calls[j].out
  /\ NotStarted =>
       /\ loss = 0
       /\ \A id \in GraphDataIDs \ SubgraphInputs :
            store[id] = Zeros(nodeShape[id[1]])

\* The five calls of a numeric_error and the baseline call of the next have
\* returned; the two baseline calls had the same buffers, and accumulated a
\* gradient.
C1_Witness ==
  /\ Len(calls) >= 6
  /\ calls[1].data = calls[6].data
  /\ NonZero(calls[1].out.grads["input1"])
  /\ calls[1].out.loss /= 0
  /\ sched = <<>>

\* C8: at most one pass of an execute call is running, and while a pass is
\* running every other scheduled pass that writes a DataID its run reads or
\* writes has either finished (for what it reads) or is not running.
C8_DependencyOrder ==
  sched /= <<>> =>
    /\ Cardinality(Running) <= 1
    /\ \A p \in Running : \A q \in DOMAIN sched \ {p} :
         /\ RunWrites(q) \cap RunReads(p) /= {} => sched[q] = "done"
         /\ RunWrites(q) \cap (RunReads(p) \cup RunWrites(p)) /= {}
              => sched[q] /= "running"

\* MulBackward is in the middle of its accumulation, after Mse and
\* MulForward.
C8_Witness ==
  /\ sched /= <<>>
  /\ "MulBackward" \in Running
  /\ pc = "bwd_zip2"
  /\ sched["Mse"] = "done"
  /\ sched["MulForward"] = "done"
  /\ NonZero(store[GradientID("output")])

\* --------------------------------------------------- Mul's shape propagation
AllKnown(shape) == \A k \in 1..Len(shape) : shape[k][1] = "Known"

\* Dimension k of input2 with Known(1) replaced by Unknown, merged with
\* dimension k of input1, as the shapes were when the rule was called.
CandidateDim(k) ==
  LET d2 == gShapes0["input2"][k]
  IN MergeDim(IF d2 = Known(1) THEN Unknown ELSE d2, gShapes0["input1"][k])

\* Some dimension of input2 other than Known(1) conflicts with input1's.
InputConflict ==
  \E k \in 1..Len(gShapes0["input2"]) :
    /\ gShapes0["input2"][k] /= Known(1)
    /\ MergeDim(gShapes0["input2"][k], gShapes0["input1"][k]) = <<"Conflict">>

\* The merged shape conflicts with the shape the output node holds.
OutputConflict ==
  /\ ~InputConflict
  /\ \E k \in 1..Len(gShapes0["output"]) :
       MergeDim(gShapes0["output"][k], CandidateDim(k)) = <<"Conflict">>

\* C11: called with every dimension of input2 Known, the rule returns; it
\* returns an error, the shapes as they were, when a dimension of input2
\* other than Known(1) conflicts with input1's or the merged shape conflicts
\* with the output's; otherwise it returns Ok with the output's shape merged,
\* dimension by dimension, with input2's (Known(1) read as Unknown) merged
\* with input1's, the shapes of the inputs as they were.
C11_PropagateMergesRelaxedShape ==
  (ppc /= "start" /\ AllKnown(gShapes0["input2"])) =>
    /\ ppc = "returned"
    /\ IF InputConflict \/ OutputConflict
         THEN propResult = <<"Err">> /\ gShapes = gShapes0
         ELSE /\ propResult = <<"Ok">>
              /\ gShapes = [gShapes0 EXCEPT !["output"] =
                   [k \in 1..Len(gShapes0["output"]) |->
                      MergeDim(gShapes0["output"][k], CandidateDim(k))]]

\* A Known(1) of input2 met a Known(2) of input1, and the output's shape was
\* resolved by the rule.
C11_Witness ==
  /\ ppc = "returned"
  /\ AllKnown(gShapes0["input2"])
  /\ \E k \in 1..Len(gShapes0["input2"]) :
       /\ gShapes0["input2"][k] = Known(1)
       /\ gShapes0["input1"][k] = Known(2)
       /\ gShapes0["output"][k] = Unknown
       /\ gShapes["output"][k] = Known(2)
  /\ propResult = <<"Ok">>

\* C13: the rule never takes the unreachable!() arm.
C13_NeverUnreachable == ppc /= "panicked"

\* ------------------------------------------- the trials of numeric_error
\* An execute call has been made and none of its passes has started.
InCall == NotStarted

\* The buffers of an execute call are the baseline samples, those of the
\* nodes of `group` moved by sign * step_size / norm along their baseline
\* gradient, norm being the one norm of the gradients of the whole group.
PerturbedOnly(group, sign) ==
  LET norm == GradNorm(group)
  IN \A n \in Leaves :
       IF n \in group
         THEN \A i \in DOMAIN data0[n].data :
                exData[n].data[i] =
                  (IF norm = 0 THEN NaN
                   ELSE data0[n].data[i]
                          + sign * TruncDiv(StepSize * output0.grads[n].data[i], norm))
         ELSE exData[n] = data0[n]

\* The buffers of this call and of the call before it lie on either side of
\* the baseline, at the same distance.
SymmetricAbout(group) ==
  LET norm == GradNorm(group)
  IN \A n \in group : \A i \in DOMAIN data0[n].data :
       LET below == calls[Len(calls)].data[n].data[i]
           above == exData[n].data[i]
       IN IF norm = 0 THEN below = NaN /\ above = NaN
          ELSE /\ below + above = 2 * data0[n].data[i]
               /\ above - data0[n].data[i] = data0[n].data[i] - below

\* C12: the parameter trial moves only the Parameter-tagged leaves and the
\* input trial only the others, every other leaf keeping its baseline
\* sample; the two points of a trial are the baseline minus and plus
\* step_size / norm times the baseline gradient, norm being the joint norm
\* of the gradients of the moved group; a group with no nodes is not
\* executed and its error is 0.
C12_TrialsPerturbOneGroup ==
  /\ (InCall /\ nepc = "exec0") => exData = data0
  /\ (InCall /\ nepc = "param1") =>
       ParameterIds /= {} /\ PerturbedOnly(Leaves \cap tags, -1)
  /\ (InCall /\ nepc = "param2") =>
       /\ ParameterIds /= {}
       /\ PerturbedOnly(Leaves \cap tags, 1)
       /\ SymmetricAbout(Leaves \cap tags)
  /\ (InCall /\ nepc = "input1") =>
       InputIds /= {} /\ PerturbedOnly(Leaves \ tags, -1)
  /\ (InCall /\ nepc = "input2") =>
       /\ InputIds /= {}
       /\ PerturbedOnly(Leaves \ tags, 1)
       /\ SymmetricAbout(Leaves \ tags)
  /\ (Leaves \cap tags = {} /\ nepc \in {"input1", "input2", "return"}) =>
       errs.param = <<0, 1>>
  /\ (Leaves \ tags = {} /\ nepc = "return") => errs.input = <<0, 1>>
  /\ (nepc = "return" /\ trial = 0) =>
       Len(calls) = 1 + (IF Leaves \cap tags = {} THEN 0 ELSE 2)
                      + (IF Leaves \ tags = {} THEN 0 ELSE 2)

\* The second call of a parameter trial that moves both inputs of the Mul
\* and not the target, along gradients that are not all zero.
C12_Witness ==
  /\ InCall
  /\ nepc = "param2"
  /\ tags = {"input1", "input2"}
  /\ GradNorm(tags) /= 0
  /\ exData["input1"] /= data0["input1"]
  /\ exData["input2"] /= data0["input2"]
  /\ exData["target"] = data0["target"]

====
